---- MODULE Spec2Model ----
(***************************************************************************)
(* MCS queue lock of src/src/mutex.rs: one Mutex<u32> and a set of threads *)
(* that each own one Slot and reuse it for successive lock / try_lock      *)
(* cycles.  A slot is named by the thread that owns it, and so is the      *)
(* stack-resident AtomicBool `locked` that a waiter publishes.  Every      *)
(* atomic access of the source is one step and reads the latest value of  *)
(* its atomic; what each access makes visible of the payload's history is  *)
(* tracked separately, from the Ordering arguments of the source.          *)
(***************************************************************************)
EXTENDS Integers, Naturals, Sequences, FiniteSets, TLC

\* Bounds of the model: threads; acquisition attempts of all threads together
\* in a run, and in a run checked for liveness; iterations per thread in the
\* run of test::lots_and_lots; acquisition attempts in a run with the nested
\* mutexes of test_lock_arc_nested; acquisition attempts and get_mut calls
\* together in a run that uses get_mut and into_inner.
NThreads == 3
MaxAttempts == 4
LiveAttempts == 3
Iters == 2
NestedAttempts == 3
AccessAttempts == 3

Threads == 1..NThreads

\* ptr::null_mut()
Null == 0

VARIABLES
    queue,      \* Mutex.queue: the slot at the tail, or Null
    data,       \* Mutex.data: the payload, a counter
    next,       \* next[t]: Slot.next of thread t's slot (whose flag it points to)
    locked,     \* locked[t]: t's `locked` flag: "true", "false", or "none" outside its scope
    pc,         \* pc[t]: where thread t is in lock / try_lock / the critical section / drop
    pred,       \* pred[t]: local `pred` of lock
    succ,       \* succ[t]: local `succ` of drop
    tmp,        \* tmp[t]: the value read by `*g += 1` before it is written back
    result,     \* result[t]: "None" once t's try_lock returned None, until t's next attempt
    iter,       \* iter[t]: acquisition attempts thread t has finished
    unwinding,  \* unwinding[t]: the thread has panicked and is unwinding
    N,          \* number of threads that take part in this run
    K,          \* acquisition attempts each of them may make
    B,          \* acquisition attempts all of them together may make
    arrivals,   \* the threads whose tail operation landed and whose drop has not returned,
                \* in the order of their tail operations (swap, successful compare_exchange)
    writes,     \* number of payload writes through a guard so far
    queueIn,    \* queue of the inner mutex, the payload of the nested test's outer mutex
    nextIn,     \* nextIn[t]: Slot.next of the second slot of thread t
    lockedIn,   \* lockedIn[t]: t's `locked` flag in lock on the inner mutex
    pcIn,       \* pcIn[t]: where thread t is in lock / drop on the inner mutex
    predIn,     \* predIn[t]: local `pred` of lock on the inner mutex
    succIn,     \* succIn[t]: local `succ` of drop of the inner guard
    last,       \* the value most recently written to the payload
    ret,        \* <<v>> once into_inner has returned v, <<>> while the mutex exists
    gets,       \* number of writes through get_mut so far
    seen,       \* seen[t]: the payload writes made visible to t by its current acquisition
    queueView,  \* the payload writes released into the value that queue holds
    flagView    \* flagView[t]: the payload writes released into the value of t's flag

\* The shape of the run, fixed at the start.
run == <<N, K, B>>

\* The inner mutex and the slots used on it.
inner == <<queueIn, nextIn, lockedIn, pcIn, predIn, succIn>>

\* The payload as seen through get_mut and into_inner.
access == <<last, ret, gets>>

\* What each thread and each atomic carries of the payload's history.
views == <<seen, queueView, flagView>>

vars == <<queue, data, next, locked, pc, pred, succ, tmp, result, iter, unwinding, run,
          arrivals, writes, inner, access, views>>

\* Mutex::new(0), Slot::new() for every thread, nothing running yet.
Fresh ==
    /\ queue = Null
    /\ data = 0
    /\ next = [t \in Threads |-> Null]
    /\ locked = [t \in Threads |-> "none"]
    /\ pc = [t \in Threads |-> "idle"]
    /\ pred = [t \in Threads |-> Null]
    /\ succ = [t \in Threads |-> Null]
    /\ tmp = [t \in Threads |-> 0]
    /\ result = [t \in Threads |-> "-"]
    /\ iter = [t \in Threads |-> 0]
    /\ unwinding = [t \in Threads |-> FALSE]
    /\ N \in 1..NThreads
    /\ arrivals = <<>>
    /\ writes = 0
    /\ queueIn = Null
    /\ nextIn = [t \in Threads |-> Null]
    /\ lockedIn = [t \in Threads |-> "none"]
    /\ pcIn = [t \in Threads |-> "idle"]
    /\ predIn = [t \in Threads |-> Null]
    /\ succIn = [t \in Threads |-> Null]
    /\ last = 0
    /\ ret = <<>>
    /\ gets = 0
    /\ seen = [t \in Threads |-> 0]
    /\ queueView = 0
    /\ flagView = [t \in Threads |-> 0]

\* Any thread makes any number of attempts, MaxAttempts in all.
Init == Fresh /\ K = MaxAttempts /\ B = MaxAttempts

\* The runs checked for liveness.
InitLive == Fresh /\ K = LiveAttempts /\ B = LiveAttempts

\* The runs with nested mutexes.
InitNested == Fresh /\ K = NestedAttempts /\ B = NestedAttempts

\* The runs that use get_mut and into_inner.
InitAccess == Fresh /\ K = AccessAttempts /\ B = AccessAttempts

\* The run of test::lots_and_lots: every thread makes Iters attempts.
InitCounter == Fresh /\ K = Iters /\ B = NThreads * Iters

\* Attempts started so far by the threads 1..n.
RECURSIVE Started(_)
Started(n) ==
    IF n = 0 THEN 0
    ELSE Started(n - 1) + iter[n]
            + (IF pc[n] \in {"idle", "dead"} /\ pcIn[n] = "idle" THEN 0 ELSE 1)

\* A thread may start another acquisition attempt.
CanStart(t) ==
    /\ t <= N
    /\ pc[t] = "idle" /\ pcIn[t] = "idle"
    /\ iter[t] < K
    /\ Started(NThreads) + gets < B
    /\ ret = <<>>

\* An ordering that makes an atomic load or read-modify-write, or a fence after
\* a relaxed load, synchronise with the release operation whose value is read.
Acquires(o) == o \in {"acquire", "acqrel", "seqcst"}

\* An ordering that makes an atomic store or read-modify-write, or a fence
\* before a relaxed store, publish what the thread has seen.
Releases(o) == o \in {"release", "acqrel", "seqcst"}

\* The later of two positions in the payload's history.
Join(a, b) == IF a >= b THEN a ELSE b

\* Mutant of ResetValue: the reset is missing and the slot keeps its old next.
ResetValueStale(t) == next[t]

\* lock line 117, try_lock line 101: the value the slot's next is reset to
ResetValue(t) == Null

\* lock, line 117: slot.next = AtomicPtr::new(null)
LockReset(t) ==
    /\ CanStart(t)
    /\ next' = [next EXCEPT ![t] = ResetValue(t)]
    /\ result' = [result EXCEPT ![t] = "-"]
    /\ pc' = [pc EXCEPT ![t] = "swap"]
    /\ UNCHANGED <<queue, data, locked, pred, succ, tmp, iter, unwinding, run, inner, access,
                   views, arrivals, writes>>

\* Mutant of MustWait: the predecessor test is dropped and lock returns at once.
MustWaitNever(p) == FALSE

\* lock, line 120: `!pred.is_null()` decides between waiting and returning at once
MustWait(p) == p # Null

\* lock, line 118: queue.swap(slot, AcqRel)
SwapOrder == "acqrel"

\* lock, lines 118-120 and 130: pred = queue.swap(slot); a null pred returns the guard.
\* The swap reads the latest value of queue and, being a read-modify-write,
\* continues the release sequence of the value it replaces.
LockSwap(t) ==
    /\ pc[t] = "swap"
    /\ queue' = t
    /\ arrivals' = Append(arrivals, t)
    /\ seen' = [seen EXCEPT ![t] = IF Acquires(SwapOrder) THEN Join(seen[t], queueView)
                                                         ELSE seen[t]]
    /\ queueView' = IF Releases(SwapOrder) THEN Join(seen[t], queueView) ELSE queueView
    /\ IF MustWait(queue)
          THEN /\ pc' = [pc EXCEPT ![t] = "publish"]
               /\ pred' = [pred EXCEPT ![t] = queue]
          ELSE /\ pc' = [pc EXCEPT ![t] = "read"]
               /\ UNCHANGED pred
    /\ UNCHANGED <<data, next, locked, succ, tmp, result, iter, unwinding, run, inner,
                   access, flagView, writes>>

\* Mutant of FlagInit: the flag starts out unlocked.
FlagInitUnlocked == "false"

\* lock, line 122: AtomicBool::new(true)
FlagInit == "true"

\* Mutant of PublishTarget: the flag reference is stored into the caller's own slot.
PublishTargetSelf(t) == t

\* lock, line 123: the slot whose next receives the flag reference
PublishTarget(t) == pred[t]

\* lock, lines 122-123: locked = AtomicBool::new(true); pred.next.store(&locked)
LockPublish(t) ==
    /\ pc[t] = "publish"
    /\ locked' = [locked EXCEPT ![t] = FlagInit]
    /\ next' = [next EXCEPT ![PublishTarget(t)] = t]
    /\ pc' = [pc EXCEPT ![t] = "spin"]
    /\ UNCHANGED <<queue, data, pred, succ, tmp, result, iter, unwinding, run, inner, access,
                   views, arrivals, writes>>

\* Mutant of StillLocked: the wait loop is skipped.
StillLockedNever(t) == FALSE

\* lock, line 124: the loop condition locked.load()
StillLocked(t) == locked[t] = "true"

\* lock, line 124: locked.load(Relaxed)
SpinLoadOrder == "relaxed"

\* Mutant of LockFence: the fence after the wait loop is relaxed (no fence).
LockFenceRelaxed == "relaxed"

\* lock, line 127: fence(Acquire)
LockFence == "acquire"

\* lock, lines 124-130: while locked.load() { pause() }; fence; return the guard.
\* `pred` and `locked` leave scope when the block ends.
LockSpin(t) ==
    /\ pc[t] = "spin"
    /\ IF StillLocked(t)
          THEN UNCHANGED vars
          ELSE /\ locked' = [locked EXCEPT ![t] = "none"]
               /\ pred' = [pred EXCEPT ![t] = Null]
               /\ pc' = [pc EXCEPT ![t] = "read"]
               /\ seen' = [seen EXCEPT ![t] =
                             IF Acquires(SpinLoadOrder) \/ Acquires(LockFence)
                                THEN Join(seen[t], flagView[t]) ELSE seen[t]]
               /\ flagView' = [flagView EXCEPT ![t] = 0]
               /\ UNCHANGED <<queue, data, next, succ, tmp, result, iter, unwinding, run, inner,
                              access, queueView, arrivals, writes>>

\* Mutant of TryReset: try_lock does not reset the slot.
TryResetMissing(t) ==
    /\ CanStart(t)
    /\ result' = [result EXCEPT ![t] = "-"]
    /\ pc' = [pc EXCEPT ![t] = "cas"]
    /\ UNCHANGED <<queue, data, next, locked, pred, succ, tmp, iter, unwinding, run, inner,
                   access, views, arrivals, writes>>

\* try_lock, line 101: slot.next = AtomicPtr::new(null)
TryReset(t) ==
    /\ CanStart(t)
    /\ next' = [next EXCEPT ![t] = ResetValue(t)]
    /\ result' = [result EXCEPT ![t] = "-"]
    /\ pc' = [pc EXCEPT ![t] = "cas"]
    /\ UNCHANGED <<queue, data, locked, pred, succ, tmp, iter, unwinding, run, inner, access,
                   views, arrivals, writes>>

\* Mutant of TryCasOk: the tail is taken whatever it holds (a swap).
TryCasOkAlways(t) == TRUE

\* try_lock, line 104: compare_exchange(null, slot) succeeds when queue is null
TryCasOk(t) == queue = Null

\* Mutant of TryCas: try_lock swaps the tail in and looks at the old value afterwards.
TryCasBySwap(t) ==
    /\ pc[t] = "cas"
    /\ queue' = t
    /\ IF queue = Null
          THEN /\ pc' = [pc EXCEPT ![t] = "read"]
               /\ arrivals' = Append(arrivals, t)
               /\ seen' = [seen EXCEPT ![t] = Join(seen[t], queueView)]
               /\ UNCHANGED <<iter, result>>
          ELSE /\ pc' = [pc EXCEPT ![t] = "idle"]
               /\ result' = [result EXCEPT ![t] = "None"]
               /\ iter' = [iter EXCEPT ![t] = iter[t] + 1]
               /\ UNCHANGED <<arrivals, seen>>
    /\ UNCHANGED <<data, next, locked, pred, succ, tmp, unwinding, run, inner, access,
                   queueView, flagView, writes>>

\* try_lock, line 104: compare_exchange(.., Acquire, Relaxed), the success ordering
TryCasOrder == "acquire"

\* try_lock, lines 103-106: queue.compare_exchange(null, slot) mapped to Some(guard) / None.
\* A successful compare_exchange continues the release sequence of the null it replaces.
TryCas(t) ==
    /\ pc[t] = "cas"
    /\ IF TryCasOk(t)
          THEN /\ queue' = t
               /\ pc' = [pc EXCEPT ![t] = "read"]
               /\ arrivals' = Append(arrivals, t)
               /\ seen' = [seen EXCEPT ![t] = IF Acquires(TryCasOrder)
                                                 THEN Join(seen[t], queueView) ELSE seen[t]]
               /\ queueView' = IF Releases(TryCasOrder) THEN Join(seen[t], queueView)
                                                        ELSE queueView
               /\ UNCHANGED <<iter, result>>
          ELSE /\ pc' = [pc EXCEPT ![t] = "idle"]
               /\ result' = [result EXCEPT ![t] = "None"]
               /\ iter' = [iter EXCEPT ![t] = iter[t] + 1]
               /\ UNCHANGED <<queue, arrivals, seen, queueView>>
    /\ UNCHANGED <<data, next, locked, pred, succ, tmp, unwinding, run, inner, access,
                   flagView, writes>>

\* `*g += 1`, the read through Deref (lines 171-173)
Read(t) ==
    /\ pc[t] = "read"
    /\ tmp' = [tmp EXCEPT ![t] = data]
    /\ pc' = [pc EXCEPT ![t] = "write"]
    /\ UNCHANGED <<queue, data, next, locked, pred, succ, result, iter, unwinding, run,
                   inner, access, views, arrivals, writes>>

\* `*g += 1`, the write through DerefMut (lines 177-179); the guard's scope ends next
Write(t) ==
    /\ pc[t] = "write"
    /\ data' = tmp[t] + 1
    /\ tmp' = [tmp EXCEPT ![t] = 0]
    /\ writes' = writes + 1
    /\ last' = tmp[t] + 1
    /\ seen' = [seen EXCEPT ![t] = writes + 1]
    /\ pc' = [pc EXCEPT ![t] = "drop"]
    /\ UNCHANGED <<queue, next, locked, pred, succ, result, iter, unwinding, run, inner,
                   ret, gets, queueView, flagView, arrivals>>

\* Mutant of Unwind: the guard is leaked by the panic and its drop never runs.
UnwindLeak(t) == "dead"

\* Unwinding runs the guard's Drop impl (lines 229-237)
Unwind(t) == "drop"

\* A panic while the guard is held
Panic(t) ==
    /\ pc[t] \in {"read", "write"}
    /\ ~unwinding[t]
    /\ unwinding' = [unwinding EXCEPT ![t] = TRUE]
    /\ tmp' = [tmp EXCEPT ![t] = 0]
    /\ pc' = [pc EXCEPT ![t] = Unwind(t)]
    /\ UNCHANGED <<queue, data, next, locked, pred, succ, result, iter, run, inner, access,
                   views, arrivals, writes>>

\* A panic outside the critical section, with a value in scope whose destructor
\* locks the mutex while the thread unwinds (test_lock_arc_access_in_unwind,
\* lines 370-382): the thread enters lock (line 117) while unwinding and is
\* gone once the guard of that call is dropped.
PanicOutside(t) ==
    /\ CanStart(t)
    /\ unwinding' = [unwinding EXCEPT ![t] = TRUE]
    /\ next' = [next EXCEPT ![t] = ResetValue(t)]
    /\ result' = [result EXCEPT ![t] = "-"]
    /\ pc' = [pc EXCEPT ![t] = "swap"]
    /\ UNCHANGED <<queue, data, locked, pred, succ, tmp, iter, run, inner, access, views,
                   arrivals, writes>>

\* The pc of a thread whose guard's drop has returned: a panicking thread is gone.
AfterDrop(t) == IF unwinding[t] THEN "dead" ELSE "idle"

\* The queue of enqueued threads once t's drop has returned.
Leave(t) == SelectSeq(arrivals, LAMBDA u : u # t)

\* Mutant of DropLoad: the drop also resets the payload.
DropLoadResetsPayload(t) ==
    /\ pc[t] = "drop"
    /\ succ' = [succ EXCEPT ![t] = next[t]]
    /\ pc' = [pc EXCEPT ![t] = IF next[t] = Null THEN "dcas" ELSE "dstore"]
    /\ data' = 0
    /\ last' = 0
    /\ UNCHANGED <<queue, next, locked, pred, tmp, result, iter, unwinding, run, inner,
                   ret, gets, views, arrivals, writes>>

\* drop, lines 192-193: succ = slot.next.load()
DropLoad(t) ==
    /\ pc[t] = "drop"
    /\ succ' = [succ EXCEPT ![t] = next[t]]
    /\ pc' = [pc EXCEPT ![t] = IF next[t] = Null THEN "dcas" ELSE "dstore"]
    /\ UNCHANGED <<queue, data, next, locked, pred, tmp, result, iter, unwinding, run, inner,
                   access, views, arrivals, writes>>

\* Mutant of DropCasOk: the tail is cleared without comparing it to this slot.
DropCasOkAlways(t) == TRUE

\* Mutant of DropCasOk: the release looks at its slot's next again, not at the tail.
DropCasOkByNext(t) == next[t] = Null

\* drop, lines 198-199: compare_exchange(slot, null) succeeds when queue is this slot
DropCasOk(t) == queue = t

\* drop, line 200: compare_exchange(.., Release, Relaxed), the success ordering
DropCasOrder == "release"

\* Mutant of DropCasStore: the tail keeps this slot although the release returns.
DropCasStoreSelf(t) == t

\* drop, line 199: the value the compare_exchange stores, ptr::null_mut()
DropCasStore(t) == Null

\* Mutant of DropCas: a failed compare_exchange returns without waiting for the
\* successor and without a hand-off.
DropCasNoWait(t) ==
    /\ pc[t] = "dcas"
    /\ queue' = IF DropCasOk(t) THEN Null ELSE queue
    /\ pc' = [pc EXCEPT ![t] = AfterDrop(t)]
    /\ iter' = [iter EXCEPT ![t] = iter[t] + 1]
    /\ arrivals' = Leave(t)
    /\ queueView' = Join(seen[t], queueView)
    /\ seen' = [seen EXCEPT ![t] = 0]
    /\ UNCHANGED <<data, next, locked, pred, succ, tmp, result, unwinding, run, inner,
                   access, flagView, writes>>

\* drop, lines 195-208: queue.compare_exchange(slot, null); success returns
DropCas(t) ==
    /\ pc[t] = "dcas"
    /\ IF DropCasOk(t)
          THEN /\ queue' = DropCasStore(t)
               /\ pc' = [pc EXCEPT ![t] = AfterDrop(t)]
               /\ iter' = [iter EXCEPT ![t] = iter[t] + 1]
               /\ arrivals' = Leave(t)
               /\ queueView' = IF Releases(DropCasOrder) THEN Join(seen[t], queueView)
                                                         ELSE queueView
               /\ seen' = [seen EXCEPT ![t] = 0]
          ELSE /\ pc' = [pc EXCEPT ![t] = "dwait"]
               /\ UNCHANGED <<queue, iter, arrivals, queueView, seen>>
    /\ UNCHANGED <<data, next, locked, pred, succ, tmp, result, unwinding, run, inner,
                   access, flagView, writes>>

\* Mutant of DropWait: the loop tests the successor it loaded first and never
\* loads the slot's next again.
DropWaitNoReload(t) ==
    /\ pc[t] = "dwait"
    /\ UNCHANGED vars

\* drop, lines 212-218: loop { succ = slot.next.load(); if !succ.is_null() break; pause() }
DropWait(t) ==
    /\ pc[t] = "dwait"
    /\ IF next[t] = Null
          THEN UNCHANGED vars
          ELSE /\ succ' = [succ EXCEPT ![t] = next[t]]
               /\ pc' = [pc EXCEPT ![t] = "dstore"]
               /\ UNCHANGED <<queue, data, next, locked, pred, tmp, result, iter,
                              unwinding, run, inner, access, views, arrivals, writes>>

\* Mutant of HandOffTarget: the hand-off goes to the thread at the tail.
HandOffTargetTail(t) == queue

\* drop, lines 223-224: the flag that receives the hand-off, `&*succ`
HandOffTarget(t) == succ[t]

\* lock, line 123: pred.next.store(&locked, Release)
PublishOrder == "release"

\* drop, lines 192 and 213: slot.next.load(Relaxed)
NextLoadOrder == "relaxed"

\* Mutant of HandOffSteps: the fence before the hand-off store is a release fence.
HandOffStepsReleaseFence == <<<<"fence", "release">>, <<"store", "release">>>>

\* drop, lines 222-224 in program order: fence(Acquire); succ.store(false, Release)
HandOffSteps == <<<<"fence", "acquire">>, <<"store", "release">>>>

\* The orderings of the fences that precede the hand-off store.
HandOffFences ==
    {HandOffSteps[i][2] : i \in {j \in 1..Len(HandOffSteps) :
        /\ HandOffSteps[j][1] = "fence"
        /\ \E k \in (j + 1)..Len(HandOffSteps) : HandOffSteps[k][1] = "store"}}

\* The ordering of the hand-off store.
HandOffStoreOrder ==
    HandOffSteps[CHOOSE k \in 1..Len(HandOffSteps) : HandOffSteps[k][1] = "store"][2]

\* The successor initialised its flag (line 122) before it published the
\* reference (line 123); the initialisation happens-before the hand-off store
\* when the load of the reference, or the fence after it, synchronises with
\* that publication.
FlagInitOrdered ==
    /\ Releases(PublishOrder)
    /\ Acquires(NextLoadOrder) \/ \E o \in HandOffFences : Acquires(o)

\* What the flag may hold after the hand-off store: a store that races with
\* the flag's initialisation may be lost to it.
HandOffOutcomes == IF FlagInitOrdered THEN {"false"} ELSE {"false", "true"}

\* drop, lines 222-225: fence; succ.store(false); return
DropStore(t) ==
    /\ pc[t] = "dstore"
    /\ \E v \in HandOffOutcomes : locked' = [locked EXCEPT ![HandOffTarget(t)] = v]
    /\ flagView' = [flagView EXCEPT ![HandOffTarget(t)] =
                       IF Releases(HandOffStoreOrder) \/ \E o \in HandOffFences : Releases(o)
                          THEN seen[t] ELSE 0]
    /\ seen' = [seen EXCEPT ![t] = 0]
    /\ succ' = [succ EXCEPT ![t] = Null]
    /\ pc' = [pc EXCEPT ![t] = AfterDrop(t)]
    /\ iter' = [iter EXCEPT ![t] = iter[t] + 1]
    /\ arrivals' = Leave(t)
    /\ UNCHANGED <<queue, data, next, pred, tmp, result, unwinding, run, inner, access,
                   queueView, writes>>

\* No thread is inside lock, try_lock or a critical section, or has a guard:
\* what a caller of get_mut(&mut self) or into_inner(self) has to hold.
Exclusive == \A t \in Threads : pc[t] \in {"idle", "dead"} /\ pcIn[t] = "idle"

\* The values test code stores through get_mut (test_get_mut stores 20).
GetMutValues == {0, 20}

\* Mutant of GetMutStore: get_mut hands out a copy and the payload keeps its value.
GetMutStoreCopy(v) == data

\* get_mut, line 139: `&mut *self.data.get()`, what the payload holds once v
\* is stored through the reference
GetMutStore(v) == v

\* `*m.get_mut() = v` (lines 138-140 and 343): a store straight into the payload
GetMut(v) ==
    /\ Exclusive
    /\ ret = <<>>
    /\ Started(NThreads) + gets < B
    /\ data' = GetMutStore(v)
    /\ last' = v
    /\ gets' = gets + 1
    /\ UNCHANGED <<queue, next, locked, pc, pred, succ, tmp, result, iter, unwinding, run,
                   arrivals, writes, inner, ret, views>>

\* m.into_inner() (lines 86-88): the mutex is consumed and its payload returned
IntoInner ==
    /\ Exclusive
    /\ ret = <<>>
    /\ ret' = <<data>>
    /\ UNCHANGED <<queue, data, next, locked, pc, pred, succ, tmp, result, iter, unwinding,
                   run, arrivals, writes, inner, last, gets, views>>

\* The outer mutex, the slot and the locals of the threads on it.
outer == <<queue, data, next, locked, pred, succ, tmp, result, unwinding, run,
           arrivals, writes, access, views>>

\* test_lock_arc_nested, line 359: lock on the inner mutex with the second slot,
\* by a thread that holds the outer guard; or by a thread that holds a clone
\* of the inner Arc and no guard.  lock, line 117.
InnerLockReset(t) ==
    /\ pcIn[t] = "idle"
    /\ \/ pc[t] = "read"
       \/ CanStart(t)
    /\ nextIn' = [nextIn EXCEPT ![t] = ResetValue(t)]
    /\ pcIn' = [pcIn EXCEPT ![t] = "swap"]
    /\ UNCHANGED <<outer, pc, iter, queueIn, lockedIn, predIn, succIn>>

\* lock on the inner mutex, lines 118-120 and 130
InnerLockSwap(t) ==
    /\ pcIn[t] = "swap"
    /\ queueIn' = t
    /\ IF MustWait(queueIn)
          THEN /\ pcIn' = [pcIn EXCEPT ![t] = "publish"]
               /\ predIn' = [predIn EXCEPT ![t] = queueIn]
          ELSE /\ pcIn' = [pcIn EXCEPT ![t] = "held"]
               /\ UNCHANGED predIn
    /\ UNCHANGED <<outer, pc, iter, nextIn, lockedIn, succIn>>

\* lock on the inner mutex, lines 122-123
InnerLockPublish(t) ==
    /\ pcIn[t] = "publish"
    /\ lockedIn' = [lockedIn EXCEPT ![t] = FlagInit]
    /\ nextIn' = [nextIn EXCEPT ![predIn[t]] = t]
    /\ pcIn' = [pcIn EXCEPT ![t] = "spin"]
    /\ UNCHANGED <<outer, pc, iter, queueIn, predIn, succIn>>

\* lock on the inner mutex, lines 124-130
InnerLockSpin(t) ==
    /\ pcIn[t] = "spin"
    /\ IF lockedIn[t] = "true"
          THEN UNCHANGED vars
          ELSE /\ lockedIn' = [lockedIn EXCEPT ![t] = "none"]
               /\ predIn' = [predIn EXCEPT ![t] = Null]
               /\ pcIn' = [pcIn EXCEPT ![t] = "held"]
               /\ UNCHANGED <<outer, pc, iter, queueIn, nextIn, succIn>>

\* test_lock_arc_nested, line 360: `assert_eq!(*lock2, 1)` through Deref
\* (lines 171-173); the inner guard's scope ends next
InnerRead(t) ==
    /\ pcIn[t] = "held"
    /\ pcIn' = [pcIn EXCEPT ![t] = "drop"]
    /\ UNCHANGED <<outer, pc, iter, queueIn, nextIn, lockedIn, predIn, succIn>>

\* The state of a thread whose inner guard's drop has returned: it still has
\* to drop the outer guard, or it has finished an attempt on the inner mutex.
InnerAfterDrop(t) == IF pc[t] = "read" THEN "done" ELSE "idle"

\* The attempts of a thread whose inner guard's drop has returned.
InnerIter(t) == IF pc[t] = "read" THEN iter[t] ELSE iter[t] + 1

\* drop of the inner guard, lines 192-193
InnerDropLoad(t) ==
    /\ pcIn[t] = "drop"
    /\ succIn' = [succIn EXCEPT ![t] = nextIn[t]]
    /\ pcIn' = [pcIn EXCEPT ![t] = IF nextIn[t] = Null THEN "dcas" ELSE "dstore"]
    /\ UNCHANGED <<outer, pc, iter, queueIn, nextIn, lockedIn, predIn>>

\* Mutant of InnerDropCasOk: the inner guard compares the tail of the outer mutex.
InnerDropCasOkOuter(t) == queue = t

\* drop of the inner guard, lines 198-199: self.lock is the inner mutex
InnerDropCasOk(t) == queueIn = t

\* drop of the inner guard, lines 195-208
InnerDropCas(t) ==
    /\ pcIn[t] = "dcas"
    /\ IF InnerDropCasOk(t)
          THEN /\ queueIn' = Null
               /\ pcIn' = [pcIn EXCEPT ![t] = InnerAfterDrop(t)]
               /\ iter' = [iter EXCEPT ![t] = InnerIter(t)]
          ELSE /\ pcIn' = [pcIn EXCEPT ![t] = "dwait"]
               /\ UNCHANGED <<queueIn, iter>>
    /\ UNCHANGED <<outer, pc, nextIn, lockedIn, predIn, succIn>>

\* drop of the inner guard, lines 212-218
InnerDropWait(t) ==
    /\ pcIn[t] = "dwait"
    /\ IF nextIn[t] = Null
          THEN UNCHANGED vars
          ELSE /\ succIn' = [succIn EXCEPT ![t] = nextIn[t]]
               /\ pcIn' = [pcIn EXCEPT ![t] = "dstore"]
               /\ UNCHANGED <<outer, pc, iter, queueIn, nextIn, lockedIn, predIn>>

\* drop of the inner guard, lines 222-225
InnerDropStore(t) ==
    /\ pcIn[t] = "dstore"
    /\ lockedIn' = [lockedIn EXCEPT ![succIn[t]] = "false"]
    /\ succIn' = [succIn EXCEPT ![t] = Null]
    /\ pcIn' = [pcIn EXCEPT ![t] = InnerAfterDrop(t)]
    /\ iter' = [iter EXCEPT ![t] = InnerIter(t)]
    /\ UNCHANGED <<outer, pc, queueIn, nextIn, predIn>>

\* test_lock_arc_nested, lines 358-362: the inner guard is dropped, the scope of
\* the outer guard ends
OuterScopeEnd(t) ==
    /\ pc[t] = "read"
    /\ pcIn[t] = "done"
    /\ pc' = [pc EXCEPT ![t] = "drop"]
    /\ pcIn' = [pcIn EXCEPT ![t] = "idle"]
    /\ UNCHANGED <<outer, iter, queueIn, nextIn, lockedIn, predIn, succIn>>

\* One step of thread t in a run with nested mutexes: lock and drop on the
\* outer mutex, with the inner mutex locked inside the outer critical section
\* or on its own.
StepNested(t) ==
    \/ LockReset(t)
    \/ LockSwap(t)
    \/ LockPublish(t)
    \/ LockSpin(t)
    \/ DropLoad(t)
    \/ DropCas(t)
    \/ DropWait(t)
    \/ DropStore(t)
    \/ InnerLockReset(t)
    \/ InnerLockSwap(t)
    \/ InnerLockPublish(t)
    \/ InnerLockSpin(t)
    \/ InnerRead(t)
    \/ InnerDropLoad(t)
    \/ InnerDropCas(t)
    \/ InnerDropWait(t)
    \/ InnerDropStore(t)
    \/ OuterScopeEnd(t)

NextNested == \E t \in Threads : StepNested(t)

SpecNested == InitNested /\ [][NextNested]_vars

\* Nested runs with every thread scheduled fairly.
FairNested == SpecNested /\ \A t \in Threads : WF_vars(StepNested(t))

\* One step of thread t.
Step(t) ==
    \/ LockReset(t)
    \/ LockSwap(t)
    \/ LockPublish(t)
    \/ LockSpin(t)
    \/ TryReset(t)
    \/ TryCas(t)
    \/ Read(t)
    \/ Write(t)
    \/ Panic(t)
    \/ DropLoad(t)
    \/ DropCas(t)
    \/ DropWait(t)
    \/ DropStore(t)

Next == \E t \in Threads : Step(t)

Spec == Init /\ [][Next]_vars

\* Every thread is scheduled fairly: threads run in parallel (spec section 5).
FairSpec == InitLive /\ [][Next]_vars /\ \A t \in Threads : WF_vars(Step(t))

\* The run of test::lots_and_lots: every thread only calls lock, nothing panics.
NextCounter ==
    \E t \in Threads :
        \/ LockReset(t)
        \/ LockSwap(t)
        \/ LockPublish(t)
        \/ LockSpin(t)
        \/ Read(t)
        \/ Write(t)
        \/ DropLoad(t)
        \/ DropCas(t)
        \/ DropWait(t)
        \/ DropStore(t)

SpecCounter == InitCounter /\ [][NextCounter]_vars

\* The runs of test_lock_arc_access_in_unwind: threads call lock, and may panic
\* inside the critical section or outside it, locking again as they unwind.
NextUnwind ==
    \E t \in Threads :
        \/ LockReset(t)
        \/ LockSwap(t)
        \/ LockPublish(t)
        \/ LockSpin(t)
        \/ Read(t)
        \/ Write(t)
        \/ Panic(t)
        \/ PanicOutside(t)
        \/ DropLoad(t)
        \/ DropCas(t)
        \/ DropWait(t)
        \/ DropStore(t)

SpecUnwind == Init /\ [][NextUnwind]_vars

\* The runs of test_get_mut and test_lock_unsized: threads call lock and write
\* through the guard; between critical sections the owner of the mutex writes
\* through get_mut, and at last consumes the mutex with into_inner.
NextAccess ==
    \/ \E t \in Threads :
          \/ LockReset(t)
          \/ LockSwap(t)
          \/ LockPublish(t)
          \/ LockSpin(t)
          \/ Read(t)
          \/ Write(t)
          \/ DropLoad(t)
          \/ DropCas(t)
          \/ DropWait(t)
          \/ DropStore(t)
    \/ \E v \in GetMutValues : GetMut(v)
    \/ IntoInner

SpecAccess == InitAccess /\ [][NextAccess]_vars

TypeOK ==
    /\ queue \in Threads \cup {Null}
    /\ data \in Nat
    /\ next \in [Threads -> Threads \cup {Null}]
    /\ locked \in [Threads -> {"true", "false", "none"}]
    /\ pred \in [Threads -> Threads \cup {Null}]
    /\ succ \in [Threads -> Threads \cup {Null}]
    /\ result \in [Threads -> {"-", "None"}]
    /\ last \in Nat
    /\ ret \in Seq(Nat)
    /\ gets \in Nat
    /\ seen \in [Threads -> Nat]
    /\ queueView \in Nat
    /\ flagView \in [Threads -> Nat]

\* States in which thread t has a guard: from the return of lock / try_lock
\* until the guard's drop returns.
GuardStates == {"read", "write", "drop", "dcas", "dwait", "dstore"}

\* Thread t holds or awaits the lock: its tail operation landed and its
\* guard's drop has not returned.
Enqueued(t) == pc[t] \in {"publish", "spin"} \cup GuardStates

\* C1: mutual exclusion - in every reachable state at most one thread has a
\* guard (has returned from lock or a successful try_lock and its drop has
\* not returned).
MutualExclusion == Cardinality({t \in Threads : pc[t] \in GuardStates}) <= 1

\* A thread is inside its critical section while a waiter spins and another
\* thread's try_lock is about to run its compare_exchange.
MutualExclusionWitness ==
    \E t, u, v \in Threads :
        pc[t] = "write" /\ pc[u] = "spin" /\ pc[v] = "cas"

\* C2: strict FIFO - no thread has its guard while a thread whose tail
\* operation landed earlier is still enqueued: guards are obtained in the
\* order of the tail operations, and a try_lock never overtakes a waiter.
StrictFifo ==
    \A i, j \in 1..Len(arrivals) :
        i < j => pc[arrivals[j]] \notin GuardStates

\* The holder handed off to the first of two waiters: the first waiter has
\* its guard, the second still spins, the former holder is back outside.
StrictFifoWitness ==
    /\ Len(arrivals) = 2
    /\ pc[arrivals[1]] = "read"
    /\ pc[arrivals[2]] = "spin"
    /\ \E u \in Threads : pc[u] = "idle" /\ iter[u] >= 1 /\ next[u] = arrivals[1]

\* C3: under fair scheduling every call to lock returns a guard.
LockReturns ==
    \A t \in Threads : (pc[t] \in {"swap", "publish", "spin"}) ~> (pc[t] = "read")

\* A waiter obtained its guard by hand-off while another still waits.
LockReturnsWitness ==
    /\ Len(arrivals) >= 2
    /\ pc[arrivals[1]] = "write"
    /\ \E u \in Threads : iter[u] >= 1 /\ next[u] = arrivals[1] /\ succ[u] = Null
                          /\ pc[u] \in {"idle", "dead"}

\* C4: when the N threads have each finished Iters lock / increment / drop
\* cycles, the payload is N * Iters.
NoLostUpdates ==
    (\A t \in Threads : t <= N => pc[t] = "idle" /\ iter[t] = K)
        => data = N * K

\* Every thread of the largest run has finished all its iterations.
NoLostUpdatesWitness ==
    /\ N = NThreads
    /\ \A t \in Threads : pc[t] = "idle" /\ iter[t] = K
    /\ K = Iters

\* C5: try_lock returns a guard exactly when, at its compare_exchange, no
\* thread holds or awaits the lock; it returns in that one step, with a guard
\* or with None, and the step can always be taken.
TryLockIffIdle ==
    /\ [](\A t \in Threads : pc[t] = "cas" => ENABLED TryCas(t))
    /\ [][\A t \in Threads :
            (pc[t] = "cas" /\ pc'[t] # "cas") =>
                /\ pc'[t] \in {"read", "idle"}
                /\ (pc'[t] = "read") <=> (\A u \in Threads : ~Enqueued(u))
                /\ (pc'[t] = "idle") <=> (result'[t] = "None")]_vars

\* One try_lock has returned None while another thread, which itself got in
\* by try_lock on the idle mutex, holds the lock and a third waits.
TryLockIffIdleWitness ==
    \E t, u, v \in Threads :
        /\ result[t] = "None" /\ pc[t] = "idle"
        /\ pc[u] \in GuardStates /\ pc[v] = "spin"
        /\ writes >= 1

\* C6: a try_lock that returns None changes neither the tail, nor the payload,
\* nor any flag, nor the next of any enqueued slot, in none of its steps, and
\* its slot is not in the queue afterwards.
FailedTryLockFrame ==
    [][\A t \in Threads :
          ((pc[t] = "idle" /\ pc'[t] = "cas") \/ (pc[t] = "cas" /\ result'[t] = "None")) =>
              /\ queue' = queue
              /\ data' = data
              /\ locked' = locked
              /\ \A u \in Threads : Enqueued(u) => next'[u] = next[u]
              /\ arrivals' = arrivals
              /\ ~Enqueued(t)' /\ queue' # t
              /\ \A u \in Threads : pc'[u] = "publish" => pred'[u] # t
              /\ \A u \in Threads : Enqueued(u) => next'[u] # t]_vars

\* A try_lock has returned None on a mutex with a holder and a published waiter.
FailedTryLockFrameWitness ==
    \E t, u, v \in Threads :
        /\ result[t] = "None" /\ pc[t] = "idle" /\ iter[t] = 1
        /\ pc[u] = "write" /\ pc[v] = "spin" /\ next[u] = v /\ queue = v

\* C7: the tail is null exactly when no thread holds or awaits the lock.
TailNullIffIdle == (queue = Null) <=> (\A t \in Threads : ~Enqueued(t))

\* The mutex is idle again after a contended hand-off and a fast-path release.
TailNullIffIdleWitness ==
    /\ queue = Null
    /\ writes >= 2
    /\ \E t, u \in Threads : next[t] = u /\ iter[t] >= 1 /\ iter[u] >= 1

\* The tail is the slot of the last thread to arrive, and that slot has no successor.
TailIsLastArrival ==
    IF arrivals = <<>>
       THEN queue = Null
       ELSE queue = arrivals[Len(arrivals)] /\ next[arrivals[Len(arrivals)]] = Null

\* C8 as stated: in every reachable state each enqueued slot's next refers to
\* the thread that arrived right after it, and the last arrival is the tail
\* with no successor.
ChainFollowsArrival ==
    /\ TailIsLastArrival
    /\ \A i \in 1..(Len(arrivals) - 1) : next[arrivals[i]] = arrivals[i + 1]

\* C8 amended: each enqueued slot's next is none until the thread that arrived
\* right after it has stored its flag reference, and refers to that thread
\* from then on; it never refers to another thread; the last arrival is the
\* tail with no successor.
ChainFollowsPublished ==
    /\ TailIsLastArrival
    /\ \A i \in 1..(Len(arrivals) - 1) :
          /\ pc[arrivals[i + 1]] = "publish" => next[arrivals[i]] = Null
          /\ pc[arrivals[i + 1]] # "publish" =>
                /\ next[arrivals[i]] = arrivals[i + 1]
                /\ locked[arrivals[i + 1]] # "none"
          /\ pred[arrivals[i + 1]] = arrivals[i]

\* A holder with two waiters behind it: the first has published, the second
\* has swapped the tail but not yet stored its flag reference; the holder is
\* on its second use of its slot.
ChainFollowsPublishedWitness ==
    /\ Len(arrivals) = 3
    /\ pc[arrivals[1]] \in GuardStates /\ iter[arrivals[1]] = 1
    /\ pc[arrivals[2]] = "spin"
    /\ pc[arrivals[3]] = "publish"

\* Thread t has been admitted: its tail operation found no predecessor, or
\* its flag has been set to unlocked.
Admitted(t) == pc[t] \in GuardStates \/ (pc[t] = "spin" /\ locked[t] = "false")

\* C9: while the tail is non-null exactly one enqueued thread is the holder and
\* every other enqueued thread is a waiter whose flag has not been unlocked;
\* a hand-off unlocks the flag of exactly the next thread in the queue, and
\* the tail becomes null only by the release of a holder with nobody behind it.
OneHolderManyWaiters ==
    /\ [](queue # Null =>
            /\ Cardinality({t \in Threads : Enqueued(t) /\ Admitted(t)}) = 1
            /\ \A t \in Threads :
                  (Enqueued(t) /\ ~Admitted(t)) =>
                      /\ pc[t] \in {"publish", "spin"}
                      /\ locked[t] = (IF pc[t] = "spin" THEN "true" ELSE "none"))
    /\ [][/\ \A u \in Threads :
               (locked[u] # "false" /\ locked'[u] = "false") =>
                   /\ Len(arrivals) >= 2 /\ u = arrivals[2]
                   /\ pc[arrivals[1]] = "dstore" /\ pc'[arrivals[1]] \notin GuardStates
                   /\ arrivals' = Tail(arrivals)
                   /\ queue' = queue
                   /\ \A v \in Threads \ {u} : locked'[v] = locked[v]
          /\ (queue # Null /\ queue' = Null) =>
                   /\ Len(arrivals) = 1 /\ pc[arrivals[1]] = "dcas"
                   /\ next[arrivals[1]] = Null
                   /\ arrivals' = <<>>]_vars

\* A waiter has been promoted by a hand-off while another waiter stays locked.
OneHolderManyWaitersWitness ==
    /\ Len(arrivals) = 2
    /\ pc[arrivals[1]] = "spin" /\ locked[arrivals[1]] = "false"
    /\ pc[arrivals[2]] = "spin" /\ locked[arrivals[2]] = "true"

\* C10: once a thread has panicked, with its guard held or taking and
\* releasing the lock as it unwinds, and has finished unwinding, its slot is
\* out of the queue, the tail is null exactly when no thread is enqueued, at
\* most one thread has a guard, the payload is what the writes so far made it,
\* and a thread in its critical section has read that payload.
UnwindSafe ==
    \A t \in Threads :
        pc[t] = "dead" =>
            /\ queue # t
            /\ \A i \in 1..Len(arrivals) : arrivals[i] # t
            /\ \A u \in Threads : pc[u] = "publish" => pred[u] # t
            /\ (queue = Null) <=> (arrivals = <<>>)
            /\ Cardinality({u \in Threads : pc[u] \in GuardStates}) <= 1
            /\ data = writes
            /\ \A u \in Threads : pc[u] = "write" => tmp[u] = data

\* Two threads are gone, one that panicked with its guard held and one that
\* panicked outside and made the one write so far while unwinding; a third
\* thread has locked since and has read that write.
UnwindSafeWitness ==
    \E t, u, v \in Threads :
        /\ t # v /\ pc[t] = "dead" /\ pc[v] = "dead"
        /\ writes = 1
        /\ pc[u] = "write" /\ tmp[u] = 1

\* Thread t is between two acquisition cycles (or has made its last one).
Outside(t) == pc[t] \in {"idle", "dead"}

\* What the slots would hold if every cycle used a slot made by Slot::new()
\* and dropped it after the release.
SlotAsFresh == [t \in Threads |-> IF Outside(t) THEN Null ELSE next[t]]

\* C11: a reused slot behaves as a fresh one.  Between cycles no step touches
\* the slot and nothing refers to it; a new cycle starts by making it equal to
\* Slot::new(), whatever the last release left in it; within a cycle its next
\* changes only by the publish of the thread that took it as predecessor, and
\* drop loads only what the slot of a fresh-slot run would hold.
ReusedSlotAsFresh ==
    /\ [](\A t \in Threads :
            (Outside(t) \/ pc[t] \in {"swap", "cas"}) =>
                /\ queue # t
                /\ \A u \in Threads : pc[u] = "publish" => pred[u] # t)
    /\ [](\A t \in Threads : pc[t] \in {"swap", "cas"} => SlotAsFresh[t] = Null)
    /\ [][\A t \in Threads :
            /\ (Outside(t) /\ Outside(t)') => next'[t] = next[t]
            /\ (Outside(t) /\ ~Outside(t)') => next'[t] = Null
            /\ (~Outside(t) /\ ~Outside(t)' /\ next'[t] # next[t]) =>
                  /\ next[t] = Null
                  /\ pc[next'[t]] = "publish" /\ pc'[next'[t]] = "spin"
                  /\ pred[next'[t]] = t
            /\ succ'[t] # succ[t] => succ'[t] \in {Null, SlotAsFresh[t]}]_vars

\* A thread handed the lock to a waiter, which left that waiter's flag in its
\* slot, and is in its next call of lock with the same slot, reset.
ReusedSlotAsFreshWitness ==
    \E t, u \in Threads :
        /\ pc[t] = "swap" /\ iter[t] = 1 /\ next[t] = Null
        /\ pc[u] = "spin" /\ locked[u] = "false" /\ arrivals = <<u>>
        /\ \A v \in Threads \ {t, u} : pc[v] = "idle" /\ iter[v] = 0

\* States in which thread t has a guard of the inner mutex.
InnerGuardStates == {"held", "drop", "dcas", "dwait", "dstore"}

\* C12: threads that lock the outer mutex and then, holding it, the inner
\* mutex with a second slot, next to threads that lock the inner mutex alone,
\* never deadlock: under fair scheduling every run ends with all attempts made
\* and all guards released, the inner before the outer; a step of lock or
\* drop on one mutex leaves the tail, the slots and the flags of the other
\* unchanged, and each mutex has at most one guard.
NestedNoDeadlock ==
    /\ <>(\A t \in Threads : Outside(t) /\ pcIn[t] = "idle" /\ ~CanStart(t))
    /\ [](\A t \in Threads : pc[t] = "drop" => pcIn[t] = "idle")
    /\ [](Cardinality({t \in Threads : pc[t] \in GuardStates}) <= 1)
    /\ [](Cardinality({t \in Threads : pcIn[t] \in InnerGuardStates}) <= 1)
    /\ [][/\ (pcIn' # pcIn /\ pc' = pc) =>
                 /\ queue' = queue /\ next' = next /\ locked' = locked
                 /\ arrivals' = arrivals
          /\ pc' # pc =>
                 /\ queueIn' = queueIn /\ nextIn' = nextIn /\ lockedIn' = lockedIn]_vars

\* A thread holds both guards while one thread waits for the outer mutex and
\* another, which locks the inner mutex on its own, waits for the inner one.
NestedNoDeadlockWitness ==
    \E t, u, v \in Threads :
        /\ pc[t] = "read" /\ pcIn[t] = "held"
        /\ pc[u] = "spin" /\ pcIn[u] = "idle"
        /\ pc[v] = "idle" /\ pcIn[v] = "spin"

\* C13: payload coherence across access paths - the value a thread has read
\* through a guard obtained by lock, and the value into_inner returned, is the
\* value most recently written to the payload (by Mutex::new, through a guard
\* or through get_mut); a get_mut or into_inner step leaves the tail, the
\* slots, the flags and every thread's position unchanged, and into_inner is
\* possible whenever the caller has the mutex to itself, with no slot.
PayloadCoherent ==
    /\ [](\A t \in Threads : pc[t] = "write" => tmp[t] = last)
    /\ [](ret # <<>> => ret = <<last>>)
    /\ [](data = last)
    /\ []((Exclusive /\ ret = <<>>) => ENABLED <<IntoInner>>_vars)
    /\ [][(gets' # gets \/ ret' # ret) =>
            /\ queue = Null /\ queue' = Null
            /\ next' = next /\ locked' = locked /\ pc' = pc
            /\ pred' = pred /\ succ' = succ /\ arrivals' = arrivals]_vars

\* get_mut stored 20, a thread then read 20 through its guard and wrote 21,
\* and into_inner returned 21.
PayloadCoherentWitness ==
    /\ ret = <<21>>
    /\ gets = 1
    /\ writes = 1
    /\ \E t \in Threads : iter[t] = 1

\* The step completes the release of t's guard: its drop returns.
ReleaseReturns(t) == pc[t] \in GuardStates /\ pc'[t] \notin GuardStates

\* The slot of t is in the queue.
InQueue(t) == \E i \in 1..Len(arrivals) : arrivals[i] = t

\* C14: each guard's release runs once and has exactly one of two effects -
\* the step on which a drop returns either changes the tail from the guard's
\* own slot to null and touches no flag, or leaves the tail unchanged and sets
\* to unlocked the flag, locked until then, of exactly one thread, the one
\* whose tail swap returned this guard's slot as predecessor; it takes the
\* guard's slot out of the queue; no other step clears the tail or unlocks a
\* flag.
ReleaseOneEffect ==
    /\ [][\A t \in Threads : ReleaseReturns(t) =>
            /\ InQueue(t) /\ ~InQueue(t)'
            /\ iter'[t] = iter[t] + 1
            /\ \/ /\ pc[t] = "dcas"
                  /\ queue = t /\ queue' = Null
                  /\ locked' = locked
               \/ /\ pc[t] = "dstore"
                  /\ queue' = queue /\ queue # t
                  /\ \E u \in Threads \ {t} :
                        /\ pred[u] = t /\ pc[u] = "spin"
                        /\ locked[u] = "true"
                        /\ locked' = [locked EXCEPT ![u] = "false"]]_vars
    /\ [][(queue # Null /\ queue' = Null) => \E t \in Threads : ReleaseReturns(t)]_vars
    /\ [][\A u \in Threads : (locked[u] # "false" /\ locked'[u] = "false") =>
            \E t \in Threads : ReleaseReturns(t) /\ pc[t] = "dstore"]_vars
    /\ [](\A t \in Threads : pc[t] \in GuardStates => InQueue(t))

\* One thread released by the fast path and is outside; another released by
\* hand-off to a waiter that has not yet seen its flag, and is back in lock.
ReleaseOneEffectWitness ==
    \E t, u, w \in Threads :
        /\ pc[t] = "idle" /\ iter[t] = 1 /\ next[t] = Null
        /\ pc[u] = "publish" /\ iter[u] = 1 /\ pred[u] = w
        /\ pc[w] = "spin" /\ locked[w] = "false"

\* The threads whose tail swap returned t's slot as predecessor and that have
\* yet to publish their flag in it, or have published it.
Successors(t) == {u \in Threads : pc[u] \in {"publish", "spin"} /\ pred[u] = t}

\* C15: the compare_exchange of the release fast path succeeds if and only if
\* no tail swap landed since the holder was enqueued (its slot is the only one
\* in the queue); after a success no thread waits and the mutex is idle; after
\* a failure, and when the first load found the successor set, exactly one
\* thread has this slot as predecessor, which is about to publish or has
\* published its flag in the slot's next.
FastPathIffNoSwap ==
    /\ [][\A t \in Threads : (pc[t] = "dcas" /\ pc'[t] # "dcas") =>
            /\ (pc'[t] \notin GuardStates) <=> (arrivals = <<t>>)
            /\ (pc'[t] \notin GuardStates) =>
                    /\ queue' = Null /\ arrivals' = <<>>
                    /\ \A u \in Threads : ~Enqueued(u)'
            /\ (pc'[t] \in GuardStates) =>
                    /\ pc'[t] = "dwait" /\ queue' = queue /\ queue # t
                    /\ Cardinality(Successors(t)) = 1]_vars
    /\ [](\A t \in Threads : pc[t] \in {"dwait", "dstore"} =>
            /\ Cardinality(Successors(t)) = 1
            /\ \A u \in Successors(t) : pc[u] = "spin" <=> next[t] = u
            /\ \A u \in Successors(t) : pc[u] = "publish" <=> next[t] = Null)
    /\ [](\A t \in Threads : pc[t] = "dstore" => succ[t] \in Successors(t))

\* The fast path of a release has failed: a thread swapped the tail after the
\* holder loaded a null successor, and has not published its flag yet.
FastPathIffNoSwapWitness ==
    \E t, u \in Threads :
        /\ pc[t] = "dwait" /\ next[t] = Null /\ queue = u
        /\ pc[u] = "publish" /\ pred[u] = t
        /\ arrivals = <<t, u>>

\* The states of a guard's drop.
DropStates == {"drop", "dcas", "dwait", "dstore"}

\* C16: release terminates - under fair scheduling every guard drop returns
\* (no drop stays in progress for ever: again and again no thread is in one);
\* a drop waits for its slot's next only while a thread that swapped the tail
\* after it has yet to publish; that thread's publish is a single step that is
\* always possible and sets the slot's next, which then stays set, and from
\* then on the waiting drop can go on, whatever the other threads do.
ReleaseTerminates ==
    /\ []<>(\A t \in Threads : pc[t] \notin DropStates)
    /\ [](\A t \in Threads : (pc[t] = "dwait" /\ next[t] = Null) =>
            \E u \in Threads : pc[u] = "publish" /\ pred[u] = t)
    /\ [](\A u \in Threads : pc[u] = "publish" => ENABLED <<LockPublish(u)>>_vars)
    /\ [](\A t \in Threads : (pc[t] = "dwait" /\ next[t] # Null) =>
            ENABLED <<DropWait(t)>>_vars)
    /\ [](\A t \in Threads : pc[t] \in {"drop", "dcas", "dstore"} =>
            ENABLED <<Step(t)>>_vars)
    /\ [][\A t, u \in Threads :
            (pc[t] = "dwait" /\ pc[u] = "publish" /\ pred[u] = t /\ pc'[u] # "publish") =>
                (pc'[u] = "spin" /\ next'[t] = u)]_vars
    /\ [][\A t \in Threads :
            (pc[t] = "dwait" /\ next[t] # Null) =>
                (next'[t] = next[t] /\ pc'[t] \in {"dwait", "dstore"})]_vars

\* A drop waits in its loop and the successor has just published its flag:
\* the next load ends the wait, while a third thread has not moved at all.
ReleaseTerminatesWitness ==
    \E t, u \in Threads :
        /\ pc[t] = "dwait" /\ next[t] = u /\ queue = u
        /\ pc[u] = "spin" /\ locked[u] = "true" /\ pred[u] = t
        /\ \A v \in Threads \ {t, u} : pc[v] = "idle" /\ iter[v] = 0

\* C17: the release protocol never reads or writes the payload - every step
\* of a guard's drop (the load of the successor, the compare_exchange on the
\* tail, the wait loop, the flag store), in normal execution and while the
\* thread unwinds from a panic in the critical section, leaves the payload,
\* the count of writes to it and every value read from it unchanged.
ReleaseLeavesPayload ==
    [][\A t \in Threads : (pc[t] \in DropStates /\ pc'[t] # pc[t]) =>
            /\ data' = data
            /\ last' = last
            /\ writes' = writes
            /\ tmp' = tmp]_vars

\* A thread that panicked between the read and the write of its increment is
\* about to hand the lock off while it unwinds; the payload holds the value
\* of the one increment made before.
ReleaseLeavesPayloadWitness ==
    \E t \in Threads :
        /\ unwinding[t] /\ pc[t] = "dstore"
        /\ data = 1 /\ writes = 1
        /\ pc[succ[t]] = "spin" /\ locked[succ[t]] = "true"

\* C18: hand-off visibility under the code's memory orderings - whenever a
\* thread accesses the payload through its guard, every write made through a
\* guard before happens-before that access; the thread obtains this on the
\* step that admits it: from the flag (release store by the predecessor,
\* relaxed load and acquire fence), from the tail swap of lock, or from the
\* compare_exchange of try_lock, the last two reading the null that a
\* fast-path release stored.
HandOffVisible ==
    /\ [](\A t \in Threads : pc[t] \in {"read", "write"} => seen[t] = writes)
    /\ [][\A t \in Threads :
            /\ (pc[t] = "spin" /\ pc'[t] = "read") =>
                    (flagView[t] = writes /\ seen'[t] = writes)
            /\ (pc[t] \in {"swap", "cas"} /\ pc'[t] = "read") =>
                    (queue = Null /\ queueView = writes /\ seen'[t] = writes)
            /\ (pc[t] = "write" /\ writes' # writes) =>
                    (writes' = writes + 1 /\ seen'[t] = writes')]_vars

\* The first write was passed on by a fast-path release and a tail swap, the
\* second by a flag hand-off to the thread that now has the guard.
HandOffVisibleWitness ==
    \E t \in Threads :
        /\ pc[t] = "read" /\ seen[t] = 2
        /\ writes = 2 /\ data = 2
        /\ queueView = 1

\* C19 as stated: in the hand-off branch the releasing thread issues a
\* release-ordered fence and then a release-ordered store of false to the
\* successor's flag.
HandOffReleaseFenceThenStore ==
    [][\A t \in Threads : (pc[t] = "dstore" /\ pc'[t] # "dstore") =>
            /\ HandOffSteps = <<<<"fence", "release">>, <<"store", "release">>>>
            /\ locked'[succ[t]] = "false"]_vars

\* C19: in the hand-off branch of release, once the successor reference has
\* been obtained, the releasing thread issues an acquire-ordered fence and
\* then stores false to that successor's flag with a release-ordered store, in
\* that order: the store is not lost to the flag's initialisation and carries
\* everything the releasing thread has seen; the thread takes no other step
\* between obtaining the successor and the store, after which its drop has
\* returned.
HandOffAcquireFenceThenStore ==
    /\ [][\A t \in Threads : (pc[t] = "dstore" /\ pc'[t] # "dstore") =>
            /\ HandOffSteps = <<<<"fence", "acquire">>, <<"store", "release">>>>
            /\ locked[succ[t]] = "true" /\ locked'[succ[t]] = "false"
            /\ flagView'[succ[t]] = seen[t]
            /\ pc'[t] \notin GuardStates]_vars
    /\ [][\A t \in Threads : (pc[t] # "dstore" /\ pc'[t] = "dstore") =>
            /\ pc[t] \in {"drop", "dwait"}
            /\ next[t] # Null /\ succ'[t] = next[t]]_vars
    /\ [][\A t \in Threads : (pc[t] = "dstore" /\ pc'[t] = "dstore") =>
            /\ succ'[t] = succ[t]
            /\ locked'[succ[t]] = locked[succ[t]]]_vars

\* A hand-off has been made after one write: the successor's flag is unlocked
\* and carries that write, and the successor has not looked at it yet.
HandOffAcquireFenceThenStoreWitness ==
    \E t, u \in Threads :
        /\ Outside(t) /\ iter[t] = 1 /\ next[t] = u
        /\ pc[u] = "spin" /\ locked[u] = "false" /\ pred[u] = t
        /\ flagView[u] = 1 /\ writes = 1 /\ seen[u] = 0

\* Thread u was enqueued right behind thread t, whose drop has not returned.
RightBehind(u, t) ==
    \E i \in 1..(Len(arrivals) - 1) : arrivals[i] = t /\ arrivals[i + 1] = u

\* C20: no dangling access to queue metadata - a slot's next is written by
\* its owner when it enters lock or try_lock, and otherwise only by the
\* publish of the thread enqueued right behind it, while the owner's drop has
\* not returned; once a drop has returned, the tail is not its slot and no
\* thread is about to publish into it.  A flag is written by another thread
\* only once, from locked to unlocked, by the hand-off of its direct
\* predecessor, while the flag's owner is polling it in lock; the flag that a
\* hand-off is about to write is in scope, locked, and its owner is polling.
NoDanglingAccess ==
    /\ [](\A u \in Threads : pc[u] = "publish" =>
            /\ pred[u] # Null /\ pred[u] # u
            /\ pc[pred[u]] \in {"publish", "spin"} \cup GuardStates
            /\ RightBehind(u, pred[u]))
    /\ [](\A t \in Threads : Outside(t) =>
            /\ queue # t
            /\ ~InQueue(t)
            /\ \A u \in Threads : ~(pc[u] = "publish" /\ pred[u] = t)
            /\ \A u \in Threads : ~(pc[u] = "dstore" /\ succ[u] = t))
    /\ [](\A t \in Threads : pc[t] = "dstore" =>
            /\ succ[t] # Null /\ succ[t] # t
            /\ pc[succ[t]] = "spin" /\ locked[succ[t]] = "true"
            /\ RightBehind(succ[t], t))
    /\ [](\A u \in Threads : locked[u] # "none" <=> pc[u] = "spin")
    /\ [][\A t \in Threads : next'[t] # next[t] =>
            \/ Outside(t) /\ pc'[t] \in {"swap", "cas"} /\ next'[t] = Null
            \/ /\ pc'[t] = pc[t] /\ pc[t] \in {"publish", "spin"} \cup GuardStates
               /\ next[t] = Null
               /\ \E u \in Threads :
                     /\ pc[u] = "publish" /\ pc'[u] = "spin"
                     /\ pred[u] = t /\ next'[t] = u]_vars
    /\ [][\A u \in Threads : locked'[u] # locked[u] =>
            \/ pc[u] = "publish" /\ pc'[u] = "spin" /\ locked'[u] = "true"
            \/ pc[u] = "spin" /\ pc'[u] = "read" /\ locked[u] = "false"
            \/ /\ pc[u] = "spin" /\ pc'[u] = "spin"
               /\ locked[u] = "true" /\ locked'[u] = "false"
               /\ \E t \in Threads :
                     /\ pc[t] = "dstore" /\ pc'[t] \notin GuardStates
                     /\ succ[t] = u /\ RightBehind(u, t)]_vars

\* A thread that reuses its slot is about to hand the lock off to a waiter
\* that is polling its flag, while a third thread, enqueued behind the
\* waiter, is about to publish into the waiter's slot.
NoDanglingAccessWitness ==
    \E t, u, v \in Threads :
        /\ pc[t] = "dstore" /\ succ[t] = u /\ iter[t] = 1
        /\ pc[u] = "spin" /\ locked[u] = "true" /\ next[u] = Null
        /\ pc[v] = "publish" /\ pred[v] = u /\ queue = v

====
